---- MODULE Spec2Model ----
(***************************************************************************)
(* hadrosaur: a persistent memoization engine (src/hadrosaur/main.py).     *)
(*                                                                         *)
(* The state is the project's base directory (one directory per resource   *)
(* with its plain files), the collection's LevelDB status index, the       *)
(* clock, and what the last call did.  Python values, file contents and    *)
(* exceptions are modelled as data: every file content is the string the   *)
(* code writes, and a failed attribute or key lookup is decided by the     *)
(* attribute tables of the classes involved.                               *)
(***************************************************************************)
EXTENDS Integers, Sequences, FiniteSets, TLC

\* ------------------------------------------------------------------ bounds

\* The clock runs from 1 to MaxTime (epoch milliseconds are positive).
MaxTime == 2
\* Fetches in one behaviour.
MaxFetch == 2
\* Direct calls of Resource.compute on one handle in one behaviour.
MaxCompute == 2
\* Contexts a caller constructs itself in one behaviour.
MaxContext == 2

\* ------------------------------------------------------------- identifiers

\* Resource identifiers (str(ident), line 162).
Idents == {"a", "b"}
\* Names of registered collections (the decorator at lines 55-65; the tests
\* register 'test', whose function raises when args has throw_error).
Registered == {"test"}
\* Collection names a caller may pass.
CollNames == {"test", "nope"}

\* ---------------------------------------------------------- Python values

PyNone == [t |-> "NoneType"]
PyInt(n) == [t |-> "int", i |-> n]
PyStr(s) == [t |-> "str", s |-> s]
PyBytes(s) == [t |-> "bytes", b |-> s]
\* The dict {'val': n} a compute function returns (test lines 21, 33).
PyDict(n) == [t |-> "dict", val |-> n]
\* An open text file object.
PyFile(text) == [t |-> "file", text |-> text]

\* class Status: the three status tokens.
Status == {"complete", "error", "pending"}

\* Attributes of class Collection: those __init__ sets, and exit.
CollectionAttrs == {"func", "name", "basedir", "status_path", "db_status", "exit"}

\* Attributes of class Resource: those __init__ sets, and its three methods.
ResourceAttrs == {"coll", "ident", "status", "paths", "result", "start_time",
                  "end_time", "start_compute", "set_status", "compute"}

\* Methods of plyvel.DB, the status index opened at line 39.
DBAttrs == {"get", "put", "delete", "close", "iterator", "write_batch", "snapshot"}

\* Keys of Resource.paths.
PathKeys == {"base", "error", "log", "status", "start_time", "end_time",
             "result", "storage"}

\* Attribute lookup on a Python value, by its type.
AttrsOf(t) ==
  CASE t = "NoneType" -> {}
    [] t = "bytes" -> {"decode"}
    [] t = "str" -> {"encode"}
    [] t = "file" -> {"read", "write"}
    [] t = "DB" -> DBAttrs
    [] t = "Collection" -> CollectionAttrs
    [] t = "Resource" -> ResourceAttrs
    [] OTHER -> {}

\* ------------------------------------------------------------ conversions

Digits == <<"0", "1", "2", "3", "4", "5", "6", "7", "8", "9">>

\* str(n) of a one-digit integer.
str(n) == Digits[n + 1]

\* Whether int(text) parses (otherwise ValueError).
IsInt(text) == \E n \in 0..9 : Digits[n + 1] = text

\* int(text) of a text that parses.
int(text) == CHOOSE n \in 0..9 : Digits[n + 1] = text

\* json.dump of a result value: None or {'val': n}.
json_dumps(v) == IF v.t = "NoneType" THEN "null" ELSE "{\"val\": " \o str(v.val) \o "}"

\* Whether json text decodes (an empty file raises JSONDecodeError).
IsJson(text) == text = "null" \/ \E n \in 0..9 : text = json_dumps(PyDict(n))

\* json.loads of a text that decodes.
json_loads(text) ==
  IF text = "null" THEN PyNone
  ELSE PyDict(CHOOSE n \in 0..9 : text = json_dumps(PyDict(n)))

\* What traceback.format_exc() yields for the function's RuntimeError.
TracebackText == "Traceback: RuntimeError\n"

\* The line the 'test' function logs through ctx.logger.
LogLine == "this should go into run.log\n"

\* ------------------------------------------------------------------ files

NoFile == [exists |-> FALSE, text |-> ""]
File(text) == [exists |-> TRUE, text |-> text]

\* A resource directory that does not exist.
NoEntry ==
  [dir |-> FALSE, storage |-> FALSE, status |-> NoFile, start_time |-> NoFile,
   end_time |-> NoFile, result |-> NoFile, error |-> NoFile, log |-> NoFile]

\* An index cell: the value stored under the identifier's key, if any.
NoKey == [present |-> FALSE, value |-> ""]
Key(value) == [present |-> TRUE, value |-> value]

\* db.get(key): the stored bytes, or None.
db_get(d) == IF d.present THEN PyBytes(d.value) ELSE PyNone

\* _read_time: None when the file is missing or does not parse.
read_time(f) ==
  IF ~f.exists THEN PyNone
  ELSE IF IsInt(f.text) THEN PyInt(int(f.text)) ELSE PyNone

\* The text _write_time writes and returns: '' for a falsy ts.
write_time(ts) == IF ts.t = "NoneType" \/ (ts.t = "int" /\ ts.i = 0) THEN "" ELSE str(ts.i)

\* _touch(path, overwrite): a blank file, unless it exists and is kept.
touch(f, overwrite) == IF overwrite \/ ~f.exists THEN File("") ELSE f

\* ---------------------------------------------------------------- handles

NoHandle == [ident |-> "", status |-> "", result |-> PyNone,
             start_time |-> PyNone, end_time |-> PyNone]

\* The outcome of a piece of code: the exception it raised ("" for none)
\* and the line that raised it, with the directory entry, the index cell
\* and the Resource object as it left them.
Outcome(exc, line, e, d, h) == [exc |-> exc, line |-> line, e |-> e, d |-> d, h |-> h]

Raised(o) == o.exc # ""

\* ------------------------------------------------------ Resource.__init__

\* What line 210 hands to json.load: the path of result.json, a str.
json_load_arg(f) == PyStr("result.json")

\* json.load(fp) is json.loads(fp.read()): <<exception, value>>.
json_load(fp, f) ==
  IF "read" \notin AttrsOf(fp.t) THEN <<"AttributeError", PyNone>>
  ELSE IF ~IsJson(f.text) THEN <<"JSONDecodeError", PyNone>>
  ELSE <<"", json_loads(f.text)>>

\* Resource(coll, ident) on directory entry e and index cell d.
Resource_init(e, d, ident) ==
  LET e1 == [e EXCEPT !.dir = TRUE]
      got == db_get(d)
      h0 == [NoHandle EXCEPT !.ident = ident]
  IN
  IF "decode" \notin AttrsOf(got.t) THEN Outcome("AttributeError", 188, e1, d, h0)
  ELSE
  LET e2 == [e1 EXCEPT !.storage = TRUE]
      h1 == [h0 EXCEPT !.status = got.b]
  IN
  IF ~e2.status.exists THEN Outcome("FileNotFoundError", 200, e2, d, h1)
  ELSE
  LET status_file == e2.status.text
      differs == status_file # h1.status
      h2 == [h1 EXCEPT !.status = status_file]
      d2 == IF differs THEN Key(status_file) ELSE d
  IN
  IF differs /\ "set" \notin AttrsOf("DB") THEN Outcome("AttributeError", 205, e2, d, h2)
  ELSE
  LET loaded == json_load(json_load_arg(e2.result), e2.result)
      h3 == [h2 EXCEPT !.result = IF e2.result.exists THEN loaded[2] ELSE PyNone]
      h4 == [h3 EXCEPT !.start_time = read_time(e2.start_time),
                       !.end_time = read_time(e2.end_time)]
  IN
  IF e2.result.exists /\ loaded[1] # "" THEN Outcome(loaded[1], 210, e2, d2, h2)
  ELSE Outcome("", 0, e2, d2, h4)

\* ------------------------------------------------------------- Context

\* res.paths[key]; line 169 asks for 'basedir'.
paths_getitem(e, key) ==
  IF key \notin PathKeys THEN Outcome("KeyError", 169, e, NoKey, NoHandle)
  ELSE Outcome("", 0, e, NoKey, NoHandle)

\* Context(coll_name, base_path) with the resource's directory as base_path:
\* logging.FileHandler(log_path) opens run.log for appending.  The handler
\* is added to the logger of the collection, which the process keeps: the
\* caller counts it in handlers.
Context_init(e) == [e EXCEPT !.log = touch(e.log, FALSE)]

\* n records of the compute function's log line.
RECURSIVE Records(_)
Records(n) == IF n = 0 THEN "" ELSE LogLine \o Records(n - 1)

\* One record logged through the collection's logger: every FileHandler
\* added to it writes the record, so a run.log with n handlers gets n.
emit(e, n) == IF n = 0 THEN e ELSE [e EXCEPT !.log = File(e.log.text \o Records(n))]

\* ------------------------------------------- Resource.set_status and users

\* set_status: the status file, then the index through self.coll.set.
set_status(e, d, h, status) ==
  LET e1 == [e EXCEPT !.status = File(status)] IN
  IF "set" \notin AttrsOf("Collection") THEN Outcome("AttributeError", 233, e1, d, h)
  ELSE Outcome("", 0, e1, Key(status), h)

\* self.write_status(status), a method class Resource does not define; were
\* it defined it would be the class's one status writer, set_status.
write_status(e, d, h, status, line) ==
  IF "write_status" \notin AttrsOf("Resource") THEN Outcome("AttributeError", line, e, d, h)
  ELSE set_status(e, d, h, status)

\* start_compute at clock value now.
start_compute(e, d, h, now) ==
  LET e1 == [e EXCEPT !.result = touch(e.result, TRUE),
                      !.error = touch(e.error, TRUE),
                      !.log = touch(e.log, TRUE)]
      s == set_status(e1, d, h, "pending")
      st == write_time(PyInt(now))
      en == write_time(PyNone)
  IN
  IF Raised(s) THEN s
  ELSE Outcome("", 0,
               [s.e EXCEPT !.start_time = File(st), !.end_time = File(en)],
               s.d,
               [s.h EXCEPT !.start_time = PyStr(st), !.end_time = PyStr(en)])

\* The collection's compute function (test lines 14-21): it logs a record
\* through the context's logger, which has n handlers on this resource's
\* run.log, then raises when asked to, else returns {'val': now}.
\* <<raised, value, entry>>.
func(e, throws, now, n) ==
  IF throws THEN <<TRUE, PyNone, emit(e, n)>> ELSE <<FALSE, PyDict(now), emit(e, n)>>

\* Resource.compute, lines 239-241: the call of the function; its value is
\* assigned to self.result when it returns.  <<raised, entry, object>>.
compute_call(e, h, throws, now, n) ==
  LET f == func(e, throws, now, n) IN
  IF f[1] THEN <<TRUE, f[3], h>> ELSE <<FALSE, f[3], [h EXCEPT !.result = f[2]]>>

\* Resource.compute, lines 242-249: the except branch up to end_time.
\* <<entry, object>>.
compute_except(e, h, now) ==
  LET en == write_time(PyInt(now)) IN
  <<[e EXCEPT !.error = File(e.error.text \o TracebackText), !.end_time = File(en)],
    [h EXCEPT !.result = PyNone, !.end_time = PyStr(en)]>>

\* Resource.compute, lines 250-253: write_status('error') when the function
\* raised, then write_status('complete'), which is not in an else branch,
\* then the dump of self.result.
compute_finish(e, d, h, raised) ==
  LET w1 == IF raised THEN write_status(e, d, h, "error", 250)
                      ELSE Outcome("", 0, e, d, h)
      w2 == write_status(w1.e, w1.d, w1.h, "complete", 251)
  IN IF Raised(w1) THEN w1
     ELSE IF Raised(w2) THEN w2
     ELSE Outcome("", 0, [w2.e EXCEPT !.result = File(json_dumps(w2.h.result))],
                  w2.d, w2.h)

\* Resource.compute(args, ctx) at clock value now, with n handlers on the
\* resource's run.log.
compute(e, d, h, throws, now, n) ==
  LET c == compute_call(e, h, throws, now, n) IN
  IF c[1]
  THEN LET x == compute_except(c[2], c[3], now)
       IN compute_finish(x[1], d, x[2], TRUE)
  ELSE compute_finish(c[2], d, c[3], FALSE)

\* ---------------------------------------------------------- Project.fetch

\* What a call did: the outcome, whether it returned its handle, how often
\* it invoked the compute function, whether it started a thread, and how
\* many Contexts it constructed.
Did(o, returned, called, spawned, contexts) ==
  [exc |-> o.exc, line |-> o.line, e |-> o.e, d |-> o.d, h |-> o.h,
   returned |-> returned, called |-> called, spawned |-> spawned,
   contexts |-> contexts]

\* Project.fetch(coll_name, ident, args, recompute, block) at clock value
\* now, with n handlers on the resource's run.log already; a blocking
\* computation ends at clock value t2.  The directory of a registered
\* collection exists (line 37), so _validate_coll_name passes.
fetch_checked(e, d, coll_name, ident, recompute, block, throws, now, t2, n) ==
  IF coll_name \notin Registered
  THEN Did(Outcome("RuntimeError", 159, e, d, NoHandle), FALSE, 0, FALSE, 0)
  ELSE
  LET r == Resource_init(e, d, ident) IN
  IF Raised(r) THEN Did(r, FALSE, 0, FALSE, 0)
  ELSE IF ~recompute /\ r.h.status # "pending" THEN Did(r, TRUE, 0, FALSE, 0)
  ELSE
  LET p == paths_getitem(r.e, "basedir") IN
  IF Raised(p) THEN Did(Outcome(p.exc, p.line, p.e, r.d, r.h), FALSE, 0, FALSE, 0)
  ELSE
  LET s == start_compute(Context_init(p.e), r.d, r.h, now) IN
  IF Raised(s) THEN Did(s, FALSE, 0, FALSE, 1)
  ELSE IF block
  THEN LET c == compute(s.e, s.d, s.h, throws, t2, n + 1)
       IN Did(c, ~Raised(c), 1, FALSE, 1)
  ELSE Did(s, TRUE, 0, TRUE, 1)

\* fetch constructing the Resource before it looks the collection up.
fetch_loads_first(e, d, coll_name, ident, recompute, block, throws, now, t2, n) ==
  IF coll_name \notin Registered
  THEN LET r == Resource_init(e, d, ident)
       IN Did(Outcome("RuntimeError", 159, r.e, r.d, NoHandle), FALSE, 0, FALSE, 0)
  ELSE fetch_checked(e, d, coll_name, ident, recompute, block, throws, now, t2, n)

fetch(e, d, coll_name, ident, recompute, block, throws, now, t2, n) ==
  fetch_checked(e, d, coll_name, ident, recompute, block, throws, now, t2, n)

\* _resource_status returning '' for a missing file, as fetch_error and
\* fetch_log do, without validating the resource.
resource_status_lenient(e, coll_name) ==
  IF coll_name \notin Registered THEN <<"RuntimeError", 83, "">>
  ELSE IF ~e.status.exists THEN <<"", 0, "">>
  ELSE <<"", 0, e.status.text>>

\* Project._resource_status(coll_name, resource_id): <<exception, line, text>>.
resource_status_validated(e, coll_name) ==
  IF coll_name \notin Registered THEN <<"RuntimeError", 83, "">>
  ELSE IF ~e.dir THEN <<"RuntimeError", 95, "">>
  ELSE IF ~e.status.exists THEN <<"FileNotFoundError", 129, "">>
  ELSE <<"", 0, e.status.text>>

resource_status(e, coll_name) == resource_status_validated(e, coll_name)

\* The value of a call that returned no counts.
NoCounts == PyNone

\* Project._coll_status(coll_name): <<exception, line, value>>.  The value
\* is the collection's status attribute, which no statement assigns.
coll_status(coll_name) ==
  IF coll_name \notin Registered THEN <<"RuntimeError", 83, NoCounts>>
  ELSE IF "status" \notin AttrsOf("Collection") THEN <<"AttributeError", 139, NoCounts>>
  ELSE <<"", 0, NoCounts>>

\* The keys of the status index in the order its iterator yields them.
KeyOrder == <<"a", "b">>

\* Project.find_by_status(coll_name, status): <<exception, line, ids>>, the
\* keys of the index whose value is the status, in iteration order.
find_by_status(index, coll_name, status) ==
  IF coll_name \notin Registered THEN <<"RuntimeError", 83, <<>>>>
  ELSE LET match(i) == index[i].present /\ index[i].value = status
       IN <<"", 0, SelectSeq(KeyOrder, match)>>

\* ------------------------------------------------------------------ state

VARIABLES
  fs,          \* identifier -> the resource's directory under <project>/test
  db,          \* identifier -> its cell of the collection's status index
  now,         \* the clock, in ms
  held,        \* the Resource object the caller holds (NoHandle: none)
  threads,     \* computations started by thread.start() and not yet ended
  last,        \* the last call: what was asked, what it did, the state before
  fetch_calls, \* identifier -> invocations of the compute function by fetch
  forced,      \* identifier -> some fetch passed recompute=True
  fetches,     \* identifier -> fetches made on a registered collection
  computes,    \* direct calls of compute on the held object
  completed,   \* identifier -> a fetch with block=True on it has returned
  handlers     \* the FileHandlers of the collection's logger, in the order
               \* they were added: the identifier of each one's run.log

vars == <<fs, db, now, held, threads, last, fetch_calls, forced, fetches, computes,
          completed, handlers>>

\* The sum of a counter over the identifiers.
RECURSIVE SumOver(_, _)
SumOver(f, S) ==
  IF S = {} THEN 0
  ELSE LET i == CHOOSE x \in S : TRUE IN f[i] + SumOver(f, S \ {i})

Total(f) == SumOver(f, Idents)

NoCall ==
  [op |-> "none", coll |-> "", ident |-> "", recompute |-> FALSE, block |-> FALSE,
   throws |-> FALSE, exc |-> "", line |-> 0, returned |-> FALSE, h |-> NoHandle,
   text |-> "", called |-> 0, spawned |-> FALSE, pre |-> NoEntry, pred |-> NoKey,
   status |-> "", counts |-> NoCounts, ids |-> <<>>]

\* ----------------------------------------------------- stored directories

\* The directory of a computed resource as test_fetch_blocking_valid reads
\* it: status complete, start_time <= end_time, the result and the log line.
StoredComplete(t0, t1) ==
  [dir |-> TRUE, storage |-> TRUE, status |-> File("complete"),
   start_time |-> File(str(t0)), end_time |-> File(str(t1)),
   result |-> File(json_dumps(PyDict(t0))), error |-> File(""),
   log |-> File(LogLine)]

\* The directory of a failed resource as test_fetch_py_err reads it: status
\* error, start_time <= end_time, the traceback in error.log.
StoredError(t0, t1) ==
  [dir |-> TRUE, storage |-> TRUE, status |-> File("error"),
   start_time |-> File(str(t0)), end_time |-> File(str(t1)),
   result |-> File(""), error |-> File(TracebackText), log |-> File(LogLine)]

\* The directories of finished resources.
StoredFinished(t) ==
  {StoredComplete(t0, t1) : t0 \in 1..t, t1 \in 1..t}
    \cup {StoredError(t0, t1) : t0 \in 1..t, t1 \in 1..t}

\* The directory start_compute leaves of the finished resource e: status
\* pending, result.json, error.log and run.log blank, and the timestamps
\* as they were (set_status raises before lines 226-227).
StoredPending(e, t) == start_compute(e, Key(e.status.text), NoHandle, t).e

\* The directories a base directory may hold when the project is opened.
Stored(t) ==
  {NoEntry}
    \cup StoredFinished(t)
    \cup {StoredPending(e, t) : e \in StoredFinished(t)}

\* The index cells an opened LevelDB may hold for a directory: its status,
\* another status, or none (the index is written after the status file).
Cells(e) == IF e.dir THEN {NoKey} \cup {Key(st) : st \in Status} ELSE {NoKey}

TimesOrdered(e) ==
  (IsInt(e.start_time.text) /\ IsInt(e.end_time.text))
     => int(e.start_time.text) <= int(e.end_time.text)

\* Project(basepath) on a base directory that may exist already (lines
\* 48-50), with the collection registered and its index opened (line 39).
Init ==
  /\ now = 1
  /\ fs \in [Idents -> {e \in Stored(now) : TimesOrdered(e)}]
  /\ db \in [Idents -> {NoKey} \cup {Key(st) : st \in Status}]
  /\ \A i \in Idents : db[i] \in Cells(fs[i])
  /\ held = NoHandle
  /\ threads = {}
  /\ last = NoCall
  /\ fetch_calls = [i \in Idents |-> 0]
  /\ forced = [i \in Idents |-> FALSE]
  /\ fetches = [i \in Idents |-> 0]
  /\ computes = 0
  /\ completed = [i \in Idents |-> FALSE]
  /\ handlers = <<>>

\* ---------------------------------------------------------------- actions

\* The number of handlers on the run.log of resource i.
HandlerCount(i) == Cardinality({k \in DOMAIN handlers : handlers[k] = i})

\* The directories after a record was logged while resource i was left as
\* e: the handlers on the other resources' run.log write the record too.
Logged(i, e) == [j \in Idents |-> IF j = i THEN e ELSE emit(fs[j], HandlerCount(j))]

\* The threads when the caller's variable is bound to a new object: no
\* thread's object is the caller's any more.
Unheld(rebound) ==
  IF rebound THEN {[job EXCEPT !.held = FALSE] : job \in threads} ELSE threads

\* The threads when the caller's object becomes h: a thread that runs on
\* that object sees the change.
Shared(h) == {IF job.held THEN [job EXCEPT !.h = h] ELSE job : job \in threads}

\* The clock advances.
Tick ==
  /\ now < MaxTime
  /\ now' = now + 1
  /\ UNCHANGED <<fs, db, held, threads, last, fetch_calls, forced, fetches, computes,
               completed, handlers>>

\* A caller calls Project.fetch.
Fetch ==
  /\ Total(fetches) < MaxFetch
  /\ \E coll_name \in CollNames, ident \in Idents, recompute \in BOOLEAN,
        block \in BOOLEAN, throws \in BOOLEAN, t2 \in now..MaxTime :
    \E r \in {fetch(fs[ident], db[ident], coll_name, ident, recompute, block,
                     throws, now, t2, HandlerCount(ident))} :
    \* t2 is read only by a computation that runs
    /\ r.called = 0 => t2 = now
    /\ fs' = IF r.called > 0 THEN Logged(ident, r.e) ELSE [fs EXCEPT ![ident] = r.e]
    /\ db' = [db EXCEPT ![ident] = r.d]
    /\ now' = IF r.called > 0 THEN t2 ELSE now
    /\ held' = IF r.returned THEN r.h ELSE held
    /\ threads' = IF r.spawned
                  THEN Unheld(r.returned)
                         \cup {[ident |-> ident, throws |-> throws, h |-> r.h,
                                pc |-> "call", held |-> TRUE, k |-> 1,
                                value |-> PyNone]}
                  ELSE Unheld(r.returned)
    /\ handlers' = IF r.contexts > 0 THEN Append(handlers, ident) ELSE handlers
    /\ fetch_calls' = [fetch_calls EXCEPT ![ident] = @ + r.called]
    /\ forced' = [forced EXCEPT ![ident] = @ \/ (recompute /\ coll_name \in Registered)]
    /\ fetches' = [fetches EXCEPT ![ident] = @ + (IF coll_name \in Registered THEN 1 ELSE 0)]
    /\ last' = [op |-> "fetch", coll |-> coll_name, ident |-> ident,
                recompute |-> recompute, block |-> block, throws |-> throws,
                exc |-> r.exc, line |-> r.line, returned |-> r.returned,
                h |-> IF r.returned THEN r.h ELSE NoHandle, text |-> "",
                called |-> r.called, spawned |-> r.spawned,
                pre |-> fs[ident], pred |-> db[ident],
                status |-> "", counts |-> NoCounts, ids |-> <<>>]
    /\ completed' = [completed EXCEPT ![ident] = @ \/ (block /\ r.returned)]
    /\ UNCHANGED computes

\* A caller calls Project.status(coll_name, resource_id).
ResourceStatus ==
  \E coll_name \in CollNames, ident \in Idents :
    \E r \in {resource_status(fs[ident], coll_name)} :
    /\ last' = [NoCall EXCEPT !.op = "status", !.coll = coll_name, !.ident = ident,
                              !.exc = r[1], !.line = r[2], !.returned = (r[1] = ""),
                              !.text = r[3], !.pre = fs[ident], !.pred = db[ident]]
    /\ UNCHANGED <<fs, db, now, held, threads, fetch_calls, forced, fetches, computes,
                 completed, handlers>>

\* The thread started at line 177 runs Resource.compute on the object fetch
\* returned, beside the caller: every write of a file and every assignment
\* to the object is a step of its own.  No behaviour of Spec starts a
\* thread (NoThreadStarted), so Next lists none of these steps.

\* The thread's job moves on: its object becomes h and its position pc.
Moved(job, h, pc) == (threads \ {job}) \cup {[job EXCEPT !.h = h, !.pc = pc]}

\* Line 241, inside the function, Logger.callHandlers: the loop over the
\* logger's handler list hands the record to its next handler, which writes
\* it to its run.log.  The loop reads the list itself, so a handler added
\* before the loop has ended is still handed the record.
ThreadLog ==
  \E job \in threads :
    /\ job.pc = "call" /\ job.k <= Len(handlers)
    /\ fs' = [fs EXCEPT ![handlers[job.k]] = emit(@, 1)]
    /\ threads' = (threads \ {job}) \cup {[job EXCEPT !.k = @ + 1]}
    /\ UNCHANGED <<db, now, held, last, fetch_calls, forced, fetches, computes,
                   completed, handlers>>

\* Line 241, inside the function: the loop finds no further handler and
\* ctx.logger.debug returns; a handler added from now on gets no record of
\* this call.
ThreadLogged ==
  \E job \in threads :
    /\ job.pc = "call" /\ job.k > Len(handlers)
    /\ threads' = (threads \ {job}) \cup {[job EXCEPT !.pc = "body"]}
    /\ UNCHANGED <<fs, db, now, held, last, fetch_calls, forced, fetches, computes,
                   completed, handlers>>

\* Line 241, the end of the function: it raises, or returns {'val': now}.
ThreadReturn ==
  \E job \in threads :
    /\ job.pc = "body"
    /\ threads' = (threads \ {job})
                     \cup {IF job.throws
                           THEN [job EXCEPT !.pc = "clear"]
                           ELSE [job EXCEPT !.pc = "assign", !.value = PyDict(now)]}
    /\ fetch_calls' = [fetch_calls EXCEPT ![job.ident] = @ + 1]
    /\ UNCHANGED <<fs, db, now, held, last, forced, fetches, computes, completed,
                   handlers>>

\* Line 241: self.result = the value returned.
ThreadAssign ==
  \E job \in threads :
    /\ job.pc = "assign"
    /\ \E h \in {[job.h EXCEPT !.result = job.value]} :
       /\ threads' = Moved(job, h, "finish")
       /\ held' = IF job.held THEN h ELSE held
    /\ UNCHANGED <<fs, db, now, last, fetch_calls, forced, fetches, computes,
                   completed, handlers>>

\* Line 244: self.result = None.
ThreadClear ==
  \E job \in threads :
    /\ job.pc = "clear"
    /\ \E h \in {[job.h EXCEPT !.result = PyNone]} :
       /\ threads' = Moved(job, h, "traceback")
       /\ held' = IF job.held THEN h ELSE held
    /\ UNCHANGED <<fs, db, now, last, fetch_calls, forced, fetches, computes,
                   completed, handlers>>

\* Line 247: error.log is opened for appending, which creates it when it
\* is missing and leaves its text alone.
ThreadErrorOpen ==
  \E job \in threads :
    /\ job.pc = "traceback"
    /\ fs' = [fs EXCEPT ![job.ident].error = touch(@, FALSE)]
    /\ threads' = Moved(job, job.h, "traceback_write")
    /\ UNCHANGED <<db, now, held, last, fetch_calls, forced, fetches, computes,
                   completed, handlers>>

\* Line 248: the traceback is written at the end of error.log.
ThreadTraceback ==
  \E job \in threads :
    /\ job.pc = "traceback_write"
    /\ fs' = [fs EXCEPT ![job.ident].error = File(@.text \o TracebackText)]
    /\ threads' = Moved(job, job.h, "end_time")
    /\ UNCHANGED <<db, now, held, last, fetch_calls, forced, fetches, computes,
                   completed, handlers>>

\* Line 249, the argument ts=_time(): the clock is read, and _write_time
\* makes the string of it (lines 295-297).
ThreadEndTimeRead ==
  \E job \in threads :
    /\ job.pc = "end_time"
    /\ threads' = (threads \ {job})
                     \cup {[job EXCEPT !.pc = "end_open",
                                       !.value = PyStr(write_time(PyInt(now)))]}
    /\ UNCHANGED <<fs, db, now, held, last, fetch_calls, forced, fetches, computes,
                   completed, handlers>>

\* _write_time, line 298: the end_time file is opened for writing, which
\* leaves it blank.
ThreadEndTimeOpen ==
  \E job \in threads :
    /\ job.pc = "end_open"
    /\ fs' = [fs EXCEPT ![job.ident].end_time = touch(@, TRUE)]
    /\ threads' = Moved(job, job.h, "end_file")
    /\ UNCHANGED <<db, now, held, last, fetch_calls, forced, fetches, computes,
                   completed, handlers>>

\* _write_time, line 299: the string is written to the end_time file.
ThreadEndTimeFile ==
  \E job \in threads :
    /\ job.pc = "end_file"
    /\ fs' = [fs EXCEPT ![job.ident].end_time = File(job.value.s)]
    /\ threads' = Moved(job, job.h, "end_attr")
    /\ UNCHANGED <<db, now, held, last, fetch_calls, forced, fetches, computes,
                   completed, handlers>>

\* Line 249: self.end_time = the string _write_time returned.
ThreadEndTimeAttr ==
  \E job \in threads :
    /\ job.pc = "end_attr"
    /\ \E h \in {[job.h EXCEPT !.end_time = job.value]} :
       /\ threads' = Moved(job, h, "finish_error")
       /\ held' = IF job.held THEN h ELSE held
    /\ UNCHANGED <<fs, db, now, last, fetch_calls, forced, fetches, computes,
                   completed, handlers>>

\* Lines 250-253: write_status, which Resource does not define: the thread
\* ends by the AttributeError.
ThreadFinish ==
  \E job \in threads :
    /\ job.pc \in {"finish", "finish_error"}
    /\ \E c \in {compute_finish(fs[job.ident], db[job.ident], job.h,
                                 job.pc = "finish_error")} :
       /\ fs' = [fs EXCEPT ![job.ident] = c.e]
       /\ db' = [db EXCEPT ![job.ident] = c.d]
       /\ held' = IF job.held THEN c.h ELSE held
    /\ threads' = threads \ {job}
    /\ UNCHANGED <<now, last, fetch_calls, forced, fetches, computes, completed,
                   handlers>>

Next == Fetch \/ ResourceStatus \/ Tick

Spec == Init /\ [][Next]_vars

\* thread.start() at line 177 is never reached.
NoThreadStarted == threads = {}

\* ------------------------------------------- the methods of one Resource

\* The files a resource directory may hold: the timestamps and the result
\* missing, blank or written, the traceback and the log missing or written.
Layouts(t) ==
  [dir : {TRUE}, storage : {TRUE}, status : {File(st) : st \in Status},
   start_time : {NoFile, File("")} \cup {File(str(t0)) : t0 \in 1..t},
   end_time : {NoFile, File("")} \cup {File(str(t1)) : t1 \in 1..t},
   result : {NoFile, File(""), File(json_dumps(PyDict(t)))},
   error : {NoFile, File(TracebackText)},
   log : {NoFile, File(LogLine)}]

\* The state after Resource(coll, "a") has constructed the object: every
\* directory and index cell on which Resource.__init__ does not raise.
InitResource ==
  /\ now = 1
  /\ \E e \in Layouts(now), d \in {NoKey} \cup {Key(st) : st \in Status} :
       \E r \in {Resource_init(e, d, "a")} :
       /\ ~Raised(r)
       /\ fs = [i \in Idents |-> IF i = "a" THEN r.e ELSE NoEntry]
       /\ db = [i \in Idents |-> IF i = "a" THEN r.d ELSE NoKey]
       /\ held = r.h
  /\ threads = {}
  /\ last = NoCall
  /\ fetch_calls = [i \in Idents |-> 0]
  /\ forced = [i \in Idents |-> FALSE]
  /\ fetches = [i \in Idents |-> 0]
  /\ computes = 0
  /\ completed = [i \in Idents |-> FALSE]
  /\ handlers = <<>>

\* The caller calls start_compute() on the object it holds.
StartCompute ==
  /\ held # NoHandle
  /\ \E i \in {held.ident} :
     \E s \in {start_compute(fs[i], db[i], held, now)} :
     /\ fs' = [fs EXCEPT ![i] = s.e]
     /\ db' = [db EXCEPT ![i] = s.d]
     /\ held' = s.h
     /\ threads' = Shared(s.h)
     /\ last' = [NoCall EXCEPT !.op = "start_compute", !.coll = "test", !.ident = i,
                               !.exc = s.exc, !.line = s.line,
                               !.returned = ~Raised(s), !.h = s.h,
                               !.pre = fs[i], !.pred = db[i]]
  /\ UNCHANGED <<now, fetch_calls, forced, fetches, computes, completed, handlers>>

\* The statuses a caller may pass to set_status: a status token, or the
\* text 'completed' (the default of find_by_status, line 141).
SetArgs == Status \cup {"completed"}

\* The caller calls set_status(status) on the object it holds.
SetStatus ==
  /\ held # NoHandle
  /\ \E status \in SetArgs, i \in {held.ident} :
     \E s \in {set_status(fs[i], db[i], held, status)} :
     /\ fs' = [fs EXCEPT ![i] = s.e]
     /\ db' = [db EXCEPT ![i] = s.d]
     /\ held' = s.h
     /\ threads' = Shared(s.h)
     /\ last' = [NoCall EXCEPT !.op = "set_status", !.coll = "test", !.ident = i,
                               !.status = status, !.exc = s.exc, !.line = s.line,
                               !.returned = ~Raised(s), !.h = s.h,
                               !.pre = fs[i], !.pred = db[i]]
  /\ UNCHANGED <<now, fetch_calls, forced, fetches, computes, completed, handlers>>

\* The caller constructs Context('test', res.paths['base']) for the object
\* it holds: run.log is created if missing and one more handler is added
\* to the collection's logger.
NewContext ==
  /\ held # NoHandle
  /\ Len(handlers) < MaxContext
  /\ fs' = [fs EXCEPT ![held.ident] = Context_init(@)]
  /\ handlers' = Append(handlers, held.ident)
  /\ last' = [NoCall EXCEPT !.op = "context", !.coll = "test", !.ident = held.ident,
                            !.returned = TRUE, !.pre = fs[held.ident],
                            !.pred = db[held.ident]]
  /\ UNCHANGED <<db, now, held, threads, fetch_calls, forced, fetches, computes,
                 completed>>

\* The caller calls compute(args, ctx) on the object it holds, with a
\* Context it has constructed; whichever it passes, the records go through
\* the collection's logger to every handler.
Compute ==
  \E throws \in BOOLEAN :
    /\ held # NoHandle
    /\ handlers # <<>>
    /\ computes < MaxCompute
    /\ \E i \in {held.ident} :
       \E c \in {compute(fs[i], db[i], held, throws, now, HandlerCount(i))} :
       /\ fs' = Logged(i, c.e)
       /\ db' = [db EXCEPT ![i] = c.d]
       /\ held' = c.h
       /\ threads' = Shared(c.h)
       /\ last' = [NoCall EXCEPT !.op = "compute", !.coll = "test", !.ident = i,
                                 !.throws = throws, !.exc = c.exc, !.line = c.line,
                                 !.returned = ~Raised(c), !.h = c.h, !.called = 1,
                                 !.pre = fs[i], !.pred = db[i]]
    /\ computes' = computes + 1
    /\ UNCHANGED <<now, fetch_calls, forced, fetches, completed, handlers>>

NextResource == StartCompute \/ SetStatus \/ NewContext \/ Compute \/ Tick

SpecResource == InitResource /\ [][NextResource]_vars

\* Fetches on a project whose directory for "a" holds any of the layouts
\* on which the resource can be loaded.
NextRefetch == Fetch \/ Tick

SpecRefetch == InitResource /\ [][NextRefetch]_vars

\* A caller calls Project.status(coll_name).
CollStatus ==
  \E coll_name \in CollNames :
    \E r \in {coll_status(coll_name)} :
    /\ last' = [NoCall EXCEPT !.op = "coll_status", !.coll = coll_name,
                              !.exc = r[1], !.line = r[2], !.returned = (r[1] = ""),
                              !.counts = r[3]]
    /\ UNCHANGED <<fs, db, now, held, threads, fetch_calls, forced, fetches, computes,
                   completed, handlers>>

\* The status a caller may pass to find_by_status: a status token, or
\* nothing, which is the default 'completed' (line 141).
FindArgs == Status \cup {"completed"}

\* A caller calls Project.find_by_status(coll_name, status).
FindByStatus ==
  \E coll_name \in CollNames, status \in FindArgs :
    \E r \in {find_by_status(db, coll_name, status)} :
    /\ last' = [NoCall EXCEPT !.op = "find_by_status", !.coll = coll_name,
                              !.status = status, !.exc = r[1], !.line = r[2],
                              !.returned = (r[1] = ""), !.ids = r[3]]
    /\ UNCHANGED <<fs, db, now, held, threads, fetch_calls, forced, fetches, computes,
                   completed, handlers>>

\* Fetches and collection queries on the project of Spec.
NextQuery == Fetch \/ CollStatus \/ FindByStatus \/ Tick

SpecQuery == Init /\ [][NextQuery]_vars

\* Fetches and status queries on that project: "a" can be loaded, "b" has
\* no directory until it is fetched.
NextStatus == Fetch \/ ResourceStatus \/ Tick

SpecStatus == InitResource /\ [][NextStatus]_vars

\* ----------------------------------------------------------------- claims

\* The last call was a fetch on a registered collection.
IsFetch == last.op = "fetch" /\ last.coll \in Registered

\* That fetch found no cached terminal status, or was told to recompute.
IsMiss == last.recompute \/ last.pre.status.text \notin {"complete", "error"}

\* A timestamp file holds a time.
IsSet(f) == read_time(f) # PyNone

\* No result value is stored: no result.json, a blank one, or null.
ResultAbsent(e) == ~e.result.exists \/ e.result.text \in {"", "null"}

\* C1: a fetch with recompute=False on an identifier that is complete (on
\* disk and in the index, with its result stored) returns a handle whose
\* result is the stored result, and does not invoke the compute function.
C1_IdempotentCacheHit ==
  (/\ IsFetch /\ ~last.recompute
   /\ last.pre.status = File("complete") /\ last.pred = Key("complete")
   /\ last.pre.result.exists /\ IsJson(last.pre.result.text))
  => (/\ last.returned
      /\ last.h.result = json_loads(last.pre.result.text)
      /\ last.called = 0)

\* That fetch went past the cache check of line 165 to the statements that
\* compute (lines 169-178): it raised at line 169, invoked the function or
\* started a thread.
Recomputes == last.line = 169 \/ last.called > 0 \/ last.spawned

C3_ComputeFailureEndsInError ==
  (/\ last.op = "compute" /\ last.throws
   /\ last.pre.status = File("pending") /\ last.pred = Key("pending")
   /\ IsSet(last.pre.start_time) /\ ~IsSet(last.pre.end_time))
  => (/\ fs[last.ident].status = File("error")
      /\ db[last.ident] = Key("error")
      /\ fs[last.ident].error.exists /\ fs[last.ident].error.text # ""
      /\ ResultAbsent(fs[last.ident]) /\ held.result = PyNone)

\* C4: a fetch that computes with a compute function that raises does not
\* raise: blocking, it returns a handle whose status is error.
C4_FetchNeverRaises ==
  (IsFetch /\ IsMiss /\ last.throws)
  => (/\ last.exc = ""
      /\ last.block => (last.returned /\ last.h.status = "error"))

\* C5: a fetch with recompute=False on an identifier whose status is error
\* returns a handle with status error, invokes nothing and leaves the
\* status error.
C5_ErrorIsCached ==
  (/\ IsFetch /\ ~last.recompute
   /\ last.pre.status = File("error") /\ last.pred = Key("error"))
  => (/\ last.returned /\ last.h.status = "error"
      /\ last.called = 0
      /\ fs[last.ident].status = File("error"))

\* C6: a fetch on an identifier never fetched before creates the resource
\* and has the compute function invoked once; blocking, it returns after
\* the computation with the terminal status that is on disk, and with the
\* function's value when it succeeded.
C6_FirstFetchComputes ==
  (IsFetch /\ last.pre = NoEntry /\ last.pred = NoKey)
  => (/\ fs[last.ident].dir
      /\ IF last.block THEN last.called = 1 ELSE last.spawned
      /\ last.block =>
           (/\ last.returned
            /\ last.h.status \in {"complete", "error"}
            /\ fs[last.ident].status = File(last.h.status)
            /\ ~last.throws => (last.h.status = "complete" /\ last.h.result.t = "dict")))

\* C7: a fetch with block=False that computes returns a handle with status
\* pending, and while its computation has not run a status query on the
\* identifier reports pending.
C7_PendingWindow ==
  /\ (IsFetch /\ ~last.block /\ IsMiss)
     => (/\ last.returned /\ last.h.status = "pending"
         /\ fs[last.ident].status = File("pending"))
  /\ (last.op = "status" /\ \E job \in threads : job.ident = last.ident)
     => last.text = "pending"

\* A directory's timestamps fit its status: pending has start_time set and
\* end_time unset, complete and error have both set, start_time <= end_time.
TimestampOK(e) ==
  /\ e.status.text = "pending" => (IsSet(e.start_time) /\ ~IsSet(e.end_time))
  /\ e.status.text \in {"complete", "error"}
       => (/\ IsSet(e.start_time) /\ IsSet(e.end_time)
           /\ read_time(e.start_time).i <= read_time(e.end_time).i)

\* C8: start_compute and compute, called on a resource whose timestamps fit
\* its status, leave a resource whose timestamps fit its status.
C8_TimestampInvariant ==
  (last.op \in {"start_compute", "compute"} /\ TimestampOK(last.pre))
  => TimestampOK(fs[last.ident])

C10_Reconciliation ==
  (/\ IsFetch /\ ~last.recompute
   /\ last.pre.status.exists /\ last.pre.status.text \in {"complete", "error"}
   /\ last.pred # Key(last.pre.status.text))
  => (/\ last.returned /\ last.h.status = last.pre.status.text
      /\ fs[last.ident].status = last.pre.status
      /\ db[last.ident] = Key(last.pre.status.text))

\* C11: a fetch with a collection name that is not registered raises, and
\* has no effect: the identifier's directory and its index cell are as they
\* were, the compute function is not invoked and no thread is started.
C11_UnknownCollection ==
  (last.op = "fetch" /\ last.coll \notin Registered)
  => (/\ last.exc = "RuntimeError" /\ ~last.returned
      /\ fs[last.ident] = last.pre
      /\ db[last.ident] = last.pred
      /\ last.called = 0 /\ ~last.spawned)

\* A fetch on an unregistered collection, for an identifier with no
\* directory, raised and left no directory.
C11_Witness ==
  /\ last.op = "fetch" /\ last.coll \notin Registered
  /\ last.exc = "RuntimeError" /\ last.line = 159
  /\ last.pre = NoEntry /\ fs[last.ident] = NoEntry /\ db[last.ident] = NoKey

\* C12: a status query on an identifier that has no directory (never
\* fetched) raises and creates nothing; a status query on an identifier
\* whose blocking fetch has returned returns the text of its status file.
C12_StatusQuery ==
  last.op = "status" =>
    /\ last.pre = NoEntry
         => (/\ last.exc = "RuntimeError" /\ ~last.returned
             /\ fs[last.ident] = NoEntry /\ db[last.ident] = NoKey)
    /\ (last.coll \in Registered /\ completed[last.ident])
         => (/\ last.returned
             /\ fs[last.ident].status.exists
             /\ last.text = fs[last.ident].status.text
             /\ last.text \in Status)

\* A status query returned the status of a failed resource whose blocking
\* fetch had returned, and another identifier still has no directory.
C12_Witness ==
  /\ last.op = "status" /\ last.coll \in Registered
  /\ completed[last.ident] /\ last.returned /\ last.text = "error"
  /\ \E i \in Idents : fs[i] = NoEntry

\* The number of resource directories whose status file holds st.
CountOnDisk(st) == Cardinality({i \in Idents : fs[i].dir /\ fs[i].status = File(st)})

\* The counts of the collection's resources by the status on disk.
CountsOnDisk ==
  [total |-> Cardinality({i \in Idents : fs[i].dir}),
   pending |-> CountOnDisk("pending"),
   complete |-> CountOnDisk("complete"),
   error |-> CountOnDisk("error"),
   unknown |-> Cardinality({i \in Idents : fs[i].dir /\ fs[i].status.text \notin Status})]

\* C13: a status query on a registered collection returns the counts of
\* its resources by status: total, pending, complete, error and unknown.
C13_AggregateCounts ==
  (last.op = "coll_status" /\ last.coll \in Registered)
  => (last.returned /\ last.counts = CountsOnDisk)

\* C14: find_by_status on a registered collection returns, of the
\* identifiers fetched so far, exactly those whose status file holds the
\* status asked for.
C14_FindByStatus ==
  (last.op = "find_by_status" /\ last.coll \in Registered)
  => (/\ last.returned
      /\ \A i \in Idents :
           fetches[i] >= 1 =>
             ((\E k \in DOMAIN last.ids : last.ids[k] = i)
                <=> (fs[i].dir /\ fs[i].status = File(last.status))))

\* C15: a blocking fetch with recompute=True on a complete identifier, with
\* a function that returns, invokes the function once and leaves the
\* resource complete, with a result stored and an end_time that is set and
\* not before the end_time it had.
C15_ForcedRecompute ==
  (/\ IsFetch /\ last.recompute /\ last.block /\ ~last.throws
   /\ last.pre.status = File("complete") /\ last.pred = Key("complete")
   /\ IsSet(last.pre.end_time))
  => (/\ last.exc = "" /\ last.called = 1
      /\ fs[last.ident].status = File("complete")
      /\ db[last.ident] = Key("complete")
      /\ fs[last.ident].result.exists /\ IsJson(fs[last.ident].result.text)
      /\ IsSet(fs[last.ident].end_time)
      /\ read_time(fs[last.ident].end_time).i >= read_time(last.pre.end_time).i)

\* A status file holds a terminal status.
IsTerminal(f) == f.exists /\ f.text \in {"complete", "error"}

\* C16: the computation a background fetch dispatches is Resource.compute
\* on a pending resource; once it has terminated, by returning or by
\* raising, the resource has a terminal status on disk and in the index.
C16_BackgroundCompletes ==
  (/\ last.op = "compute"
   /\ last.pre.status = File("pending") /\ last.pred = Key("pending"))
  => (/\ IsTerminal(fs[last.ident].status)
      /\ db[last.ident] = Key(fs[last.ident].status.text))

\* The status of a resource on disk; unknown when it has no status file.
StatusOf(e) == IF e.status.exists THEN e.status.text ELSE "unknown"

\* The changes of status the state machine allows.
LegalChanges ==
  {<<"unknown", "pending">>, <<"pending", "complete">>, <<"pending", "error">>,
   <<"complete", "pending">>, <<"error", "pending">>}

\* C17: every step that changes a resource's status on disk from a status
\* of the state machine, other than a caller's own set_status, makes one of
\* the legal changes, and a step that is one invocation of compute leaves
\* the terminal status it wrote.
C17_LegalTransitions ==
  [][/\ \A i \in Idents :
          (/\ StatusOf(fs'[i]) # StatusOf(fs[i])
           /\ StatusOf(fs[i]) \in Status \cup {"unknown"}
           /\ last'.op # "set_status")
            => <<StatusOf(fs[i]), StatusOf(fs'[i])>> \in LegalChanges
     /\ computes' = computes + 1
          => IsTerminal(fs'[last'.ident].status)]_vars

\* C18: a call of start_compute leaves result.json, error.log and run.log
\* blank, the status pending in the status file and in the index,
\* start_time the time of the call and end_time unset.
C18_BeginResets ==
  [][(last'.op = "start_compute" /\ last' # last)
     => (/\ fs'[last'.ident].result = File("")
         /\ fs'[last'.ident].error = File("")
         /\ fs'[last'.ident].log = File("")
         /\ fs'[last'.ident].status = File("pending")
         /\ db'[last'.ident] = Key("pending")
         /\ fs'[last'.ident].start_time = File(str(now))
         /\ ~IsSet(fs'[last'.ident].end_time))]_vars

\* The computations in flight for an identifier.
InFlight(i) == {job \in threads : job.ident = i}

\* C19: nothing guards an identifier: every fetch with recompute=True and
\* block=False on an identifier with a terminal status runs start_compute
\* and puts a computation in flight, whatever is in flight already, so the
\* second of two such callers leaves two computations in flight.
C19_UnguardedRace ==
  (/\ IsFetch /\ last.recompute /\ ~last.block
   /\ IsTerminal(last.pre.status) /\ last.pred = Key(last.pre.status.text))
  => (/\ last.spawned
      /\ fs[last.ident].status = File("pending")
      /\ InFlight(last.ident) # {}
      /\ fetches[last.ident] >= 2 => Cardinality(InFlight(last.ident)) >= 2)

\* C20: when a call of start_compute or compute on a resource has ended
\* and no computation is in flight, the resource's index entry equals its
\* status file.
C20_QuiescentAgreement ==
  (last.op \in {"start_compute", "compute"} /\ InFlight(last.ident) = {})
  => (/\ fs[last.ident].status.exists
      /\ db[last.ident] = Key(fs[last.ident].status.text))
====
